---- MODULE Spec2Model ----
(***************************************************************************)
(* Timeline live preview of temporal-drift                                 *)
(* (src/src/editor/timeline-live-preview.ts).                              *)
(*                                                                         *)
(* A document is a sequence of lines, a line a sequence of one-character   *)
(* strings.  Offsets are CodeMirror offsets: a line break counts one       *)
(* character, line numbers start at 1.                                     *)
(*                                                                         *)
(* Spec      the update scheduler (TimelineLivePreviewSyncPlugin) with the *)
(*           decoration state field, driven by host transactions.          *)
(* ScanSpec  one call of buildDecorations, the scan loop of buildEntries   *)
(*           taken one iteration per step.                                 *)
(***************************************************************************)
EXTENDS Integers, Sequences, FiniteSets, TLC

VARIABLES
  doc,              \* view.state.doc
  selection,        \* view.state.selection.ranges
  visibleRanges,    \* view.visibleRanges
  isLive,           \* editorLivePreviewField / .is-live-preview
  filePath,         \* editorInfoField.file.path
  decorations,      \* value of timelineDecorationsField (the committed set)
  scheduled,        \* TimelineLivePreviewSyncPlugin.scheduled
  nextDecorations,  \* TimelineLivePreviewSyncPlugin.nextDecorations
  microtasks,       \* number of callbacks queued by queueMicrotask
  hung,             \* a handler of the plugin never returned
  hist,             \* history of the scheduler (not program state)
  scan              \* the running buildDecorations call of ScanSpec

vars == <<doc, selection, visibleRanges, isLive, filePath, decorations,
          scheduled, nextDecorations, microtasks, hung, hist, scan>>

(***************************************************************************)
(* Bounds                                                                  *)
(***************************************************************************)
MaxScanLines == 3
MaxTriggers == 3
MaxVisits == 2
MaxHeadTokens == 3
MaxBlockLines == 3
LongSlack == 1
MaxAbove == 2
MaxCalls == 4
MaxEnterLines == 2

(***************************************************************************)
(* Program constants                                                       *)
(***************************************************************************)
MAX_LOOKBACK_LINES == 50

DailyNotesFolder == "Daily"

Null == [null |-> TRUE]

(***************************************************************************)
(* Characters and lines                                                    *)
(***************************************************************************)
IsSpace(c) == c \in {" ", "\t"}

IsDigit(c) == c \in {"0", "1", "2", "3", "4", "5", "6", "7", "8", "9"}

IsListMarker(c) == c \in {"-", "*", "+"}

RECURSIVE SkipSpace(_, _)
SkipSpace(text, i) ==
  IF i <= Len(text) /\ IsSpace(text[i]) THEN SkipSpace(text, i + 1) ELSE i

\* a time label accepted without the whitespace after it
TimeAtNoSpace(text, i) ==
  /\ i + 4 <= Len(text)
  /\ IsDigit(text[i]) /\ IsDigit(text[i + 1])
  /\ text[i + 2] = ":"
  /\ IsDigit(text[i + 3]) /\ IsDigit(text[i + 4])

\* \d{2}:\d{2}\s at index i
TimeAt(text, i) ==
  /\ i + 5 <= Len(text)
  /\ IsDigit(text[i]) /\ IsDigit(text[i + 1])
  /\ text[i + 2] = ":"
  /\ IsDigit(text[i + 3]) /\ IsDigit(text[i + 4])
  /\ IsSpace(text[i + 5])

\* (?:[-*+]\s+)? at index i: the index after the list marker, 0 without one
MarkerEnd(text, i) ==
  IF i + 1 <= Len(text) /\ IsListMarker(text[i]) /\ IsSpace(text[i + 1])
  THEN SkipSpace(text, i + 1) ELSE 0

TimeStartFrom(text, i, j) ==
  IF j > 0 /\ TimeAt(text, j) THEN j
  ELSE IF TimeAt(text, i) THEN i
  ELSE 0

TimeStartAfter(text, i) == TimeStartFrom(text, i, MarkerEnd(text, i))

\* index of the time label of a header line, 0 when the line is no header:
\* /^\s*(?:[-*+]\s+)?\d{2}:\d{2}\s/
TimeStart(text) == TimeStartAfter(text, SkipSpace(text, 1))

isTimelineLine(text) == TimeStart(text) > 0

\* text.trim() === ""
IsBlank(text) == SkipSpace(text, 1) > Len(text)

\* /^\s+/.test(text)
IsIndented(text) == Len(text) >= 1 /\ IsSpace(text[1])

\* /^##/.test(text)
IsHeading(text) == Len(text) >= 2 /\ text[1] = "#" /\ text[2] = "#"

HeadAt(text, h) ==
  [ok |-> TRUE, headStart |-> h - 1, headLen |-> Len(text) + 1 - h]

ParseAt(text, t) ==
  IF t = 0 THEN [ok |-> FALSE, headStart |-> 0, headLen |-> 0]
  ELSE HeadAt(text, SkipSpace(text, t + 5))

\* parseTimelineLine: null for a line that is no header, else the offset of
\* the head text in the line (0-based) and the length of the head
parseTimelineLine(text) == ParseAt(text, TimeStart(text))

(***************************************************************************)
(* Head text of a header line                                              *)
(***************************************************************************)
\* the pattern occurs in the text at index i
StartsAt(text, pat, i) ==
  /\ i >= 1
  /\ i + Len(pat) - 1 <= Len(text)
  /\ SubSeq(text, i, i + Len(pat) - 1) = pat

\* String.indexOf from index i on: the first index of pat, 0 for -1
RECURSIVE IndexOfFrom(_, _, _)
IndexOfFrom(text, pat, i) ==
  IF i + Len(pat) - 1 > Len(text) THEN 0
  ELSE IF StartsAt(text, pat, i) THEN i
  ELSE IndexOfFrom(text, pat, i + 1)

\* String.lastIndexOf of the one-character pattern c, 0 for -1
RECURSIVE LastIndexOfChar(_, _, _)
LastIndexOfChar(text, c, i) ==
  IF i < 1 THEN 0
  ELSE IF text[i] = c THEN i
  ELSE LastIndexOfChar(text, c, i - 1)

RECURSIVE SkipSpaceBack(_, _)
SkipSpaceBack(text, j) ==
  IF j >= 1 /\ IsSpace(text[j]) THEN SkipSpaceBack(text, j - 1) ELSE j

\* String.trim
Trim(text) == SubSeq(text, SkipSpace(text, 1), SkipSpaceBack(text, Len(text)))

WithDelimiter == <<" ", "w", "i", "t", "h", " ">>

OpenBrackets == <<"[", "[">>

CloseBrackets == <<"]", "]">>

EmptyTitle == <<"(", "e", "m", "p", "t", "y", ")">>

\* [a-zA-Z0-9]
IsAlnum(c) ==
  c \in {"0", "1", "2", "3", "4", "5", "6", "7", "8", "9",
         "a", "b", "c", "d", "e", "f", "g", "h", "i", "j", "k", "l", "m",
         "n", "o", "p", "q", "r", "s", "t", "u", "v", "w", "x", "y", "z",
         "A", "B", "C", "D", "E", "F", "G", "H", "I", "J", "K", "L", "M",
         "N", "O", "P", "Q", "R", "S", "T", "U", "V", "W", "X", "Y", "Z"}

RECURSIVE SkipAlnumBack(_, _)
SkipAlnumBack(text, j) ==
  IF j >= 1 /\ IsAlnum(text[j]) THEN SkipAlnumBack(text, j - 1) ELSE j

\* title.replace(/\s*~[a-zA-Z0-9]+$/, "") with k the index before the
\* trailing run of letters and digits
CutSuffixAt(title, k) ==
  IF k >= 1 /\ k < Len(title) /\ title[k] = "~"
  THEN SubSeq(title, 1, k - 1) ELSE title

stripEventIdSuffix(title) ==
  Trim(CutSuffixAt(title, SkipAlnumBack(title, Len(title))))

\* p1.split("/").pop()
LastSegmentFrom(text, k) == SubSeq(text, k + 1, Len(text))

LastSegment(text) == LastSegmentFrom(text, LastIndexOfChar(text, "/", Len(text)))

\* parseWikilinkDisplay with k the index of the first "|" of raw:
\* /^([^|]+)(?:\|(.+))?$/
WikilinkAt(raw, k) ==
  IF k = 0 \/ k = 1 \/ k = Len(raw)
  THEN [target |-> Trim(raw), display |-> Trim(LastSegment(Trim(raw)))]
  ELSE [target |-> Trim(SubSeq(raw, 1, k - 1)),
        display |-> Trim(SubSeq(raw, k + 1, Len(raw)))]

parseWikilinkDisplay(raw) == WikilinkAt(raw, IndexOfFrom(raw, <<"|">>, 1))

NoMatch == [from |-> 0, to |-> 0]

\* /\[\[([^\]]+)\]\]/ tried at index i, j the index of the first "]" after
\* the opening brackets
LinkMatchClosed(text, i, j) ==
  IF j > i + 2 /\ StartsAt(text, CloseBrackets, j)
  THEN [from |-> i, to |-> j + 1] ELSE NoMatch

LinkMatchAt(text, i) ==
  IF StartsAt(text, OpenBrackets, i)
  THEN LinkMatchClosed(text, i, IndexOfFrom(text, <<"]">>, i + 2))
  ELSE NoMatch

\* the leftmost match of /\[\[([^\]]+)\]\]/ that starts at index i or later
RECURSIVE FirstLinkFrom(_, _)
FirstLinkTry(text, i, m) ==
  IF m.from > 0 THEN m ELSE FirstLinkFrom(text, i + 1)

FirstLinkFrom(text, i) ==
  IF i > Len(text) THEN NoMatch
  ELSE FirstLinkTry(text, i, LinkMatchAt(text, i))

\* the capture group of a match
LinkInner(text, m) == SubSeq(text, m.from + 2, m.to - 2)

PrimaryOf(head, m) ==
  IF m.from = 0 THEN Null ELSE parseWikilinkDisplay(LinkInner(head, m))

\* extractPrimaryLink: Null when the head holds no link
extractPrimaryLink(head) == PrimaryOf(head, FirstLinkFrom(head, 1))

\* Array.from(tail.matchAll(/\[\[([^\]]+)\]\]/g)).map(parseWikilinkDisplay)
RECURSIVE LinksFrom(_, _)
LinksAfter(text, m) ==
  IF m.from = 0 THEN <<>>
  ELSE <<parseWikilinkDisplay(LinkInner(text, m))>> \o LinksFrom(text, m.to + 1)

LinksFrom(text, i) == LinksAfter(text, FirstLinkFrom(text, i))

\* participants taken from the whole head once the delimiter occurs
ParticipantsOfWholeHead(head, withIdx) ==
  IF withIdx = 0 THEN <<>> ELSE LinksFrom(head, 1)

ParticipantsAt(head, withIdx) ==
  IF withIdx = 0 THEN <<>>
  ELSE LinksFrom(SubSeq(head, withIdx + Len(WithDelimiter), Len(head)), 1)

extractParticipants(head) ==
  ParticipantsAt(head, IndexOfFrom(head, WithDelimiter, 1))

\* index after the longest run from i of characters that are neither "]"
\* nor, when bar is set, "|"
RECURSIVE SkipInner(_, _, _)
SkipInner(text, i, bar) ==
  IF i <= Len(text) /\ text[i] # "]" /\ (bar => text[i] # "|")
  THEN SkipInner(text, i + 1, bar) ELSE i

\* /\[\[([^\]|]+)(?:\|([^\]]+))?\]\]/ at index i, k the index after p1 and
\* j the index after p2
WikiMatchBar(text, i, k, j) ==
  IF j > k + 1 /\ StartsAt(text, CloseBrackets, j)
  THEN [from |-> i, to |-> j + 1,
        display |-> Trim(SubSeq(text, k + 1, j - 1))]
  ELSE [from |-> 0, to |-> 0, display |-> <<>>]

WikiMatchInner(text, i, k) ==
  IF k = i + 2 THEN [from |-> 0, to |-> 0, display |-> <<>>]
  ELSE IF StartsAt(text, CloseBrackets, k)
  THEN [from |-> i, to |-> k + 1,
        display |-> Trim(LastSegment(SubSeq(text, i + 2, k - 1)))]
  ELSE IF k <= Len(text) /\ text[k] = "|"
  THEN WikiMatchBar(text, i, k, SkipInner(text, k + 1, FALSE))
  ELSE [from |-> 0, to |-> 0, display |-> <<>>]

WikiMatchAt(text, i) ==
  IF StartsAt(text, OpenBrackets, i)
  THEN WikiMatchInner(text, i, SkipInner(text, i + 2, TRUE))
  ELSE [from |-> 0, to |-> 0, display |-> <<>>]

\* stripWikilinks: every match replaced by its display text
RECURSIVE StripFrom(_, _)
StripStep(text, i, m) ==
  IF m.from > 0 THEN m.display \o StripFrom(text, m.to + 1)
  ELSE <<text[i]>> \o StripFrom(text, i + 1)

StripFrom(text, i) ==
  IF i > Len(text) THEN <<>>
  ELSE StripStep(text, i, WikiMatchAt(text, i))

stripWikilinks(text) == StripFrom(text, 1)

\* head.split(" with ")[0]
BeforeWithAt(text, withIdx) ==
  IF withIdx = 0 THEN text ELSE SubSeq(text, 1, withIdx - 1)

BeforeWith(text) == BeforeWithAt(text, IndexOfFrom(text, WithDelimiter, 1))

OrEmptyTitle(plain) == IF plain = <<>> THEN EmptyTitle ELSE plain

TitleOf(head, primary) ==
  IF primary # Null THEN stripEventIdSuffix(primary.display)
  ELSE stripEventIdSuffix(stripWikilinks(OrEmptyTitle(BeforeWith(head))))

\* the title of buildEntries
EntryTitle(head) == TitleOf(head, extractPrimaryLink(head))

\* t.replace(/^\s*\[\[[^\]]+\]\]\s*/, "") with m the match tried at the
\* first character that is no whitespace
DropLeadingLinkAt(t, m) ==
  IF m.from = 0 THEN t ELSE SubSeq(t, SkipSpace(t, m.to + 1), Len(t))

DropLeadingLink(t) == DropLeadingLinkAt(t, LinkMatchAt(t, SkipSpace(t, 1)))

LocationOf(head, primary) ==
  IF primary = Null THEN <<>>
  ELSE Trim(stripWikilinks(BeforeWith(DropLeadingLink(head))))

\* the locationText of buildEntries
EntryLocationText(head) == LocationOf(head, extractPrimaryLink(head))

\* `${m[1]}:${m[2]}` with t the index of the time label
TimeTextAt(text, t) == SubSeq(text, t, t + 4)

\* the time label read at the start of the line
TimeTextAtLineStart(text) == SubSeq(text, 1, 5)

\* the time label read without regard to indent and list marker
ParsedTimeFromLineStart(text) == TimeTextAtLineStart(text)

\* the time label of a header line
ParsedTime(text) == TimeTextAt(text, TimeStart(text))

\* (m[3] ?? "").trim()
HeadTextOf(text, parsed) ==
  Trim(SubSeq(text, parsed.headStart + 1, parsed.headStart + parsed.headLen))

\* the head text of a header line
ParsedHead(text) == HeadTextOf(text, parseTimelineLine(text))

\* the {time, head} pair of a line, Null for a line that is no header
TimeAndHead(text) ==
  IF isTimelineLine(text)
  THEN [time |-> ParsedTime(text), head |-> ParsedHead(text)]
  ELSE Null

\* time + " " + head
Serialize(p) == p.time \o <<" ">> \o p.head

(***************************************************************************)
(* Text addressing (CodeMirror Text)                                       *)
(***************************************************************************)
\* the least number of a set of numbers
Least(S) == CHOOSE x \in S : \A y \in S : x <= y

\* length of lines a..b with their line breaks
RECURSIVE LengthOfLines(_, _, _)
LengthOfLines(d, a, b) ==
  IF a > b THEN 0
  ELSE IF a = b THEN Len(d[a]) + 1
  ELSE LengthOfLines(d, a, (a + b) \div 2)
       + LengthOfLines(d, (a + b) \div 2 + 1, b)

\* offset of the first character of line n
LineFrom(d, n) == LengthOfLines(d, 1, n - 1)

LineTo(d, n) == LineFrom(d, n) + Len(d[n])

DocLength(d) == LineTo(d, Len(d))

LineWith(d, n, from) ==
  [number |-> n, from |-> from, to |-> from + Len(d[n]), text |-> d[n]]

\* doc.line(n)
Line(d, n) == LineWith(d, n, LineFrom(d, n))

\* number of the line that holds offset p: the first line that ends at p
\* or after it
LineNumberAt(d, p) ==
  Least({n \in 1..Len(d) : p <= LineTo(d, n)} \cup {Len(d)})

\* doc.lineAt(pos)
LineAt(d, p) == Line(d, LineNumberAt(d, p))

(***************************************************************************)
(* buildEntries                                                            *)
(***************************************************************************)
\* the lookup loop is left at a header, at a line that starts with ## and
\* at unindented text
EndsLookBack(text) ==
  \/ isTimelineLine(text)
  \/ IsHeading(text)
  \/ ~IsBlank(text) /\ ~IsIndented(text)

\* the offsets from `offset` to `last` at which the loop would be left
LookBackExits(d, lineNo, offset, last) ==
  {o \in offset..last : EndsLookBack(d[lineNo - o])}

\* the loop left at offset o: the header found there, else 0 for null
LookBackLine(d, lineNo, o) ==
  IF isTimelineLine(d[lineNo - o]) THEN lineNo - o ELSE 0

\* the loop ends at the first of the exits, or runs out without a header
LookBackFrom(d, lineNo, exits) ==
  IF exits = {} THEN 0 ELSE LookBackLine(d, lineNo, Least(exits))

\* a lookup that gives up one line early
LookBackExclusive(d, lineNo, offset) ==
  LookBackFrom(d, lineNo,
               LookBackExits(d, lineNo, offset,
                             IF lineNo - 1 < MAX_LOOKBACK_LINES - 1
                             THEN lineNo - 1 ELSE MAX_LOOKBACK_LINES - 1))

\* the loop of findNearestTimeLineAbove from `offset` on:
\* offset <= MAX_LOOKBACK_LINES && lineNo - offset >= 1
LookBack(d, lineNo, offset) ==
  LookBackFrom(d, lineNo,
               LookBackExits(d, lineNo, offset,
                             IF lineNo - 1 < MAX_LOOKBACK_LINES
                             THEN lineNo - 1 ELSE MAX_LOOKBACK_LINES))

\* findNearestTimeLineAbove: the header line number, 0 for null
findNearestTimeLineAbove(d, lineNo) == LookBack(d, lineNo, 0)

\* a block that ends before a blank line
EndsBlockAtBlank(text) ==
  \/ isTimelineLine(text)
  \/ IsHeading(text)
  \/ IsBlank(text)
  \/ ~IsIndented(text)

\* the forward loop breaks at a header, at a line that starts with ## and at
\* unindented text; blank and indented lines are taken into the block
EndsBlock(text) ==
  \/ isTimelineLine(text)
  \/ IsHeading(text)
  \/ ~IsBlank(text) /\ ~IsIndented(text)

\* the loop that starts at line ln with the last line taken so far, breaks
\* the lines from ln on at which it would break
BlockEndAt(d, endLineNo, ln, breaks) ==
  IF breaks = {} THEN (IF ln > Len(d) THEN endLineNo ELSE Len(d))
  ELSE IF Least(breaks) = ln THEN endLineNo
  ELSE Least(breaks) - 1

\* the forward loop over the lines after a header: the last line of the block
BlockEnd(d, ln, endLineNo) ==
  BlockEndAt(d, endLineNo, ln, {k \in ln..Len(d) : EndsBlock(d[k])})

\* text.replace(/^\s+/, "")
StripIndent(text) == SubSeq(text, SkipSpace(text, 1), Len(text))

BodyLine(text) == IF IsBlank(text) THEN <<>> ELSE StripIndent(text)

EntryOf(d, line, parsed, endLineNo) ==
  [from     |-> line.from,
   to       |-> LineTo(d, endLineNo),
   lineFrom |-> line.from,
   editPos  |-> IF parsed.headLen > 0 THEN line.from + parsed.headStart
                ELSE line.to,
   bodyLines |-> [k \in 1..(endLineNo - line.number) |->
                    BodyLine(d[line.number + k])],
   raw      |-> SubSeq(d, line.number, endLineNo)]

\* the TimelineEntry pushed for the header line `line`
MakeEntry(d, line) ==
  EntryOf(d, line, parseTimelineLine(line.text),
          BlockEnd(d, line.number + 1, line.number))

\* state of the two loops of buildEntries: ri the index of the visible range
\* being scanned (Len + 1 once the for loop has ended), pos, seenLineFrom,
\* entries
ScanStart(ranges) ==
  [ri |-> 1, pos |-> IF Len(ranges) >= 1 THEN ranges[1].from ELSE 0,
   seen |-> {}, entries |-> <<>>]

ScanEnded(ranges, s) == s.ri > Len(ranges)

NextRange(ranges, s) ==
  [s EXCEPT !.ri = s.ri + 1,
            !.pos = IF s.ri + 1 <= Len(ranges) THEN ranges[s.ri + 1].from ELSE 0]

JumpTo(d, line, maybeStart) ==
  IF maybeStart > 0 THEN Line(d, maybeStart) ELSE line

\* the line a scan position is resolved to: the line itself, or the header
\* found above it
ScanLine(d, line) ==
  IF isTimelineLine(line.text) THEN line
  ELSE JumpTo(d, line, findNearestTimeLineAbove(d, line.number))

PushEntry(s, line, e) ==
  [s EXCEPT !.pos = e.to + 1,
            !.seen = s.seen \cup {line.from},
            !.entries = Append(s.entries, e)]

\* a loop body without the seenLineFrom check
ScanBodyNoDedupe(d, s, line) ==
  IF ~parseTimelineLine(line.text).ok
  THEN [s EXCEPT !.pos = line.to + 1, !.seen = s.seen \cup {line.from}]
  ELSE PushEntry(s, line, MakeEntry(d, line))

\* the body of the while loop from the seen check on
ScanBody(d, s, line) ==
  IF line.from \in s.seen THEN [s EXCEPT !.pos = line.to + 1]
  ELSE IF ~parseTimelineLine(line.text).ok
  THEN [s EXCEPT !.pos = line.to + 1, !.seen = s.seen \cup {line.from}]
  ELSE PushEntry(s, line, MakeEntry(d, line))

ScanAt(d, ranges, s, to, line) ==
  IF line.from > to THEN NextRange(ranges, s)
  ELSE ScanBody(d, s, ScanLine(d, line))

\* an iteration takes the line at pos as its scan position
TakesLine(ranges, s) == ~ScanEnded(ranges, s) /\ s.pos <= ranges[s.ri].to

\* one evaluation of the while condition and, when it holds, of the body
ScanStep(d, ranges, s) ==
  IF ScanEnded(ranges, s) THEN s
  ELSE IF ~TakesLine(ranges, s) THEN NextRange(ranges, s)
  ELSE ScanAt(d, ranges, s, ranges[s.ri].to, LineAt(d, s.pos))

\* the loops run to their end; a loop state that an iteration leaves
\* unchanged is repeated forever
RECURSIVE ScanRun(_, _, _)
ScanNext(d, ranges, s, n) ==
  IF n = s THEN [diverges |-> TRUE, entries |-> s.entries]
  ELSE ScanRun(d, ranges, n)

ScanRun(d, ranges, s) ==
  IF ScanEnded(ranges, s) THEN [diverges |-> FALSE, entries |-> s.entries]
  ELSE ScanNext(d, ranges, s, ScanStep(d, ranges, s))

buildEntries(d, ranges) == ScanRun(d, ranges, ScanStart(ranges))

(***************************************************************************)
(* buildDecorations                                                        *)
(***************************************************************************)
\* a DecorationSet: its ranges in the order of the range set
DecorationSet(ranges) == [ranges |-> ranges]

DecorationNone == DecorationSet(<<>>)

EmptyDailyState ==
  DecorationSet(<<[from |-> 0, to |-> 0, widget |-> "empty-state"]>>)

\* an overlap test that misses a cursor on the first or last offset
selectionOverlapsStrict(sel, from, to) ==
  \E i \in 1..Len(sel) : sel[i].from < to /\ sel[i].to > from

selectionOverlaps(sel, from, to) ==
  \E i \in 1..Len(sel) : sel[i].from <= to /\ sel[i].to >= from

\* entries.sort((a, b) => a.from - b.from): stable insertion
RECURSIVE InsertSorted(_, _)
InsertSorted(sorted, e) ==
  IF sorted = <<>> THEN <<e>>
  ELSE IF sorted[Len(sorted)].from <= e.from THEN Append(sorted, e)
  ELSE Append(InsertSorted(SubSeq(sorted, 1, Len(sorted) - 1), e),
              sorted[Len(sorted)])

RECURSIVE SortEntries(_)
SortEntries(es) ==
  IF es = <<>> THEN <<>>
  ELSE InsertSorted(SortEntries(SubSeq(es, 1, Len(es) - 1)), es[Len(es)])

CardDecoration(e) == [from |-> e.from, to |-> e.to, widget |-> "card", entry |-> e]

\* the loop over the sorted entries with RangeSetBuilder.add, which throws
\* when a range starts before the one added last
RECURSIVE AddCards(_, _, _)
AddCards(es, sel, built) ==
  IF es = <<>> THEN [kind |-> "ok", value |-> DecorationSet(built)]
  ELSE IF selectionOverlaps(sel, es[1].from, es[1].to)
  THEN AddCards(Tail(es), sel, built)
  ELSE IF built # <<>> /\ es[1].from < built[Len(built)].from
  THEN [kind |-> "throws", value |-> DecorationNone]
  ELSE AddCards(Tail(es), sel, Append(built, CardDecoration(es[1])))

\* an emptiness test by length
EmptyDocByLength(d) == DocLength(d) = 0

EmptyDoc(d) == \A n \in 1..Len(d) : IsBlank(d[n])

\* the part of buildDecorations after the scan
DecorateEntries(d, sel, entries) ==
  IF entries = <<>>
  THEN [kind |-> "ok",
        value |-> IF EmptyDoc(d) THEN EmptyDailyState ELSE DecorationNone]
  ELSE AddCards(SortEntries(entries), sel, <<>>)

\* normalizePath(settings.dailyNotesFolder + "/") is a prefix of the path
InDailyNotes(path) == path.folder = DailyNotesFolder

\* a gate that looks at the editor mode only
InertUnlessLive(live, path) == ~live

\* the two early returns of buildDecorations
Inert(live, path) == ~live \/ path = Null \/ ~InDailyNotes(path)

Decorate(d, sel, r) ==
  IF r.diverges THEN [kind |-> "diverges", value |-> DecorationNone]
  ELSE DecorateEntries(d, sel, r.entries)

buildDecorations(d, sel, ranges, live, path) ==
  IF Inert(live, path) THEN [kind |-> "ok", value |-> DecorationNone]
  ELSE Decorate(d, sel, buildEntries(d, ranges))

(***************************************************************************)
(* The decoration state field and the sync plugin                          *)
(***************************************************************************)
\* a field that drops its value when the document changes
FieldUpdateResetOnEdit(value, tr) ==
  IF tr.effects # <<>> THEN tr.effects[1]
  ELSE IF tr.docChanged THEN [ranges |-> <<>>]
  ELSE value

\* timelineDecorationsField.update: the value of the first
\* setTimelineDecorations effect of the transaction, else the old value
FieldUpdate(value, tr) ==
  IF tr.effects # <<>> THEN tr.effects[1] ELSE value

\* a dispatch that also places the cursor
DispatchSpecWithSelection(next) ==
  [effects |-> <<next>>, changes |-> [null |-> TRUE], selection |-> [anchor |-> 0]]

\* the TransactionSpec the deferred callback dispatches
DispatchSpec(next) ==
  [effects |-> <<next>>, changes |-> Null, selection |-> Null]

\* scheduleSync without the scheduled check: one callback for each trigger
scheduleSyncEveryTrigger(p, r) ==
  IF r.kind = "diverges" THEN [p EXCEPT !.hung = TRUE]
  ELSE IF r.kind = "throws" THEN p
  ELSE [p EXCEPT !.next = r.value, !.scheduled = TRUE, !.microtasks = @ + 1]

\* scheduleSync that returns before storing the candidate when an apply is
\* queued
scheduleSyncKeepFirst(p, r) ==
  IF r.kind = "diverges" THEN [p EXCEPT !.hung = TRUE]
  ELSE IF r.kind = "throws" THEN p
  ELSE IF p.scheduled THEN p
  ELSE [p EXCEPT !.next = r.value, !.scheduled = TRUE, !.microtasks = @ + 1]

\* scheduleSync that queues the callback without setting the flag
scheduleSyncNoFlag(p, r) ==
  IF r.kind = "diverges" THEN [p EXCEPT !.hung = TRUE]
  ELSE IF r.kind = "throws" THEN p
  ELSE IF p.microtasks > 0 THEN [p EXCEPT !.next = r.value]
  ELSE [p EXCEPT !.next = r.value, !.microtasks = @ + 1]

\* scheduleSync on the plugin fields p, r the outcome of buildDecorations:
\* a call that never returns leaves the handler hanging, a throw leaves
\* scheduleSync before any assignment
scheduleSync(p, r) ==
  IF r.kind = "diverges" THEN [p EXCEPT !.hung = TRUE]
  ELSE IF r.kind = "throws" THEN p
  ELSE LET q == [p EXCEPT !.next = r.value]
       IN  IF q.scheduled THEN q
           ELSE [q EXCEPT !.scheduled = TRUE, !.microtasks = @ + 1]

\* TimelineLivePreviewSyncPlugin.update
PluginUpdate(p, u, r) ==
  IF u.docChanged \/ u.viewportChanged \/ u.selectionSet
  THEN scheduleSync(p, r) ELSE p

\* a callback that clears the pending value only after the dispatch
MicrotaskCallbackKeepPending(p) ==
  IF p.next = [null |-> TRUE]
  THEN [plugin |-> [p EXCEPT !.scheduled = FALSE, !.microtasks = @ - 1],
        dispatch |-> [null |-> TRUE]]
  ELSE [plugin |-> [p EXCEPT !.scheduled = FALSE, !.microtasks = @ - 1],
        dispatch |-> [effects |-> <<p.next>>, changes |-> [null |-> TRUE],
                      selection |-> [null |-> TRUE]]]

\* the callback given to queueMicrotask, up to the dispatch: dispatch is
\* Null when the callback returns without dispatching
MicrotaskCallback(p) ==
  LET q == [p EXCEPT !.scheduled = FALSE, !.microtasks = @ - 1]
  IN  IF q.next = Null THEN [plugin |-> q, dispatch |-> Null]
      ELSE [plugin |-> [q EXCEPT !.next = Null],
            dispatch |-> DispatchSpec(q.next)]

Plugin == [scheduled |-> scheduled, next |-> nextDecorations,
           microtasks |-> microtasks, hung |-> hung]

SetPlugin(q) ==
  /\ scheduled' = q.scheduled
  /\ nextDecorations' = q.next
  /\ microtasks' = q.microtasks
  /\ hung' = q.hung

(***************************************************************************)
(* Host inputs of the scheduler                                            *)
(***************************************************************************)
HeaderLine == <<"0", "9", ":", "0", "0", " ", "a">>
IndentedLine == <<" ", "b">>
BlankLine == <<>>
PlainLine == <<"x">>

DailyFile == [folder |-> DailyNotesFolder, name |-> "2026-02-02.md"]
OtherFile == [folder |-> "Notes", name |-> "a.md"]

SchedulerDocs ==
  { <<BlankLine>>,
    <<HeaderLine>>,
    <<HeaderLine, IndentedLine>>,
    <<PlainLine, HeaderLine, IndentedLine, PlainLine>> }

Range(a, b) == [from |-> a, to |-> b]

Cursor(p) == Range(p, p)

Boundaries(d) ==
  {LineFrom(d, n) : n \in 1..Len(d)} \cup {LineTo(d, n) : n \in 1..Len(d)}

Selections(d) ==
  {<<Cursor(p)>> : p \in Boundaries(d)} \cup {<<Range(0, DocLength(d))>>}

\* the viewport 0..length without the hidden (folded or replaced) a..b
Spans(d, a, b) ==
  (IF a > 0 THEN <<Range(0, a)>> ELSE <<>>)
  \o (IF b < DocLength(d) THEN <<Range(b, DocLength(d))>> ELSE <<>>)

FullViewport(d) == <<Range(0, DocLength(d))>>

VisibleChoices(d) ==
  {FullViewport(d)} \cup
  {Spans(d, LineFrom(d, i), LineTo(d, j)) :
     <<i, j>> \in {ij \in (1..Len(d)) \X (1..Len(d)) : ij[1] <= ij[2]}}

ClampRange(r, len) ==
  Range(IF r.from > len THEN len ELSE r.from, IF r.to > len THEN len ELSE r.to)

ClampSelection(sel, d) == [i \in 1..Len(sel) |-> ClampRange(sel[i], DocLength(d))]

(***************************************************************************)
(* History of the scheduler                                                *)
(***************************************************************************)
NoScan == [phase |-> "none"]

NoTransaction == [docChanged |-> FALSE, selectionSet |-> FALSE, effects |-> <<>>]

HistStart ==
  [triggers |-> 0, burst |-> 0, appliedBurst |-> 0, windows |-> 0,
   applies |-> 0, lastCand |-> Null, queuedCand |-> Null, dispatched |-> Null,
   event |-> "none", tr |-> NoTransaction]

\* a call of scheduleSync that took the plugin from p to q with outcome r
HistSync(h, p, q, r) ==
  IF r.kind # "ok" THEN h
  ELSE [h EXCEPT !.burst = @ + 1,
                 !.windows = IF h.burst = 0 THEN @ + 1 ELSE @,
                 !.queuedCand = IF h.burst = 0 THEN r.value ELSE @,
                 !.lastCand = r.value]

(***************************************************************************)
(* The scheduler: state after construction and host transactions           *)
(***************************************************************************)
NewPlugin == [scheduled |-> FALSE, next |-> Null, microtasks |-> 0, hung |-> FALSE]

InitPlugin(r, q) ==
  /\ scheduled = q.scheduled
  /\ nextDecorations = q.next
  /\ microtasks = q.microtasks
  /\ hung = q.hung
  /\ hist = [HistSync(HistStart, NewPlugin, q, r) EXCEPT !.event = "construct"]

Construct(r) == InitPlugin(r, scheduleSync(NewPlugin, r))

\* the view is created on a document; the field is created empty and the
\* plugin constructor calls scheduleSync
Init ==
  /\ doc \in SchedulerDocs
  /\ selection = <<Cursor(0)>>
  /\ visibleRanges = FullViewport(doc)
  /\ isLive = TRUE
  /\ filePath = DailyFile
  /\ decorations = DecorationNone
  /\ Construct(buildDecorations(doc, selection, visibleRanges, isLive, filePath))
  /\ scan = NoScan

\* the state left by a host update: q the plugin fields after update(),
\* r the outcome of buildDecorations
HostCommit(kind, d2, sel2, vr2, tr, r, q) ==
  /\ doc' = d2
  /\ selection' = sel2
  /\ visibleRanges' = vr2
  /\ decorations' = FieldUpdate(decorations, tr)
  /\ SetPlugin(q)
  /\ hist' = [HistSync(hist, Plugin, q, r) EXCEPT
                !.triggers = @ + 1,
                !.tr = tr,
                !.event = IF q.hung THEN "hung"
                          ELSE IF r.kind = "throws" THEN "threw" ELSE kind]
  /\ UNCHANGED <<isLive, filePath, scan>>

HostPlugin(kind, d2, sel2, vr2, tr, r) ==
  HostCommit(kind, d2, sel2, vr2, tr, r,
             PluginUpdate(Plugin,
                          [docChanged |-> tr.docChanged,
                           selectionSet |-> tr.selectionSet,
                           viewportChanged |-> vr2 # visibleRanges], r))

\* EditorView.update for a host transaction tr that leaves the view at
\* d2, sel2, vr2: the field is updated, then the plugin; fails says that a
\* host call made by buildDecorations throws
HostUpdate(kind, d2, sel2, vr2, tr, fails) ==
  /\ ~hung
  /\ hist.triggers < MaxTriggers
  /\ HostPlugin(kind, d2, sel2, vr2, tr,
                IF fails THEN [kind |-> "throws", value |-> DecorationNone]
                ELSE buildDecorations(d2, sel2, vr2, isLive, filePath))

\* the document is replaced by another text; the host clamps the selection
\* and draws the whole document
DocChange ==
  \E d2 \in SchedulerDocs \ {doc} :
    HostUpdate("doc", d2, ClampSelection(selection, d2), FullViewport(d2),
               [docChanged |-> TRUE, selectionSet |-> FALSE, effects |-> <<>>],
               FALSE)

SelectionChange ==
  \E sel2 \in Selections(doc) \ {selection} :
    HostUpdate("selection", doc, sel2, visibleRanges,
               [docChanged |-> FALSE, selectionSet |-> TRUE, effects |-> <<>>],
               FALSE)

\* scrolling, folding or a layout change: no transaction
ViewportChange ==
  \E vr2 \in VisibleChoices(doc) \ {visibleRanges} :
    HostUpdate("viewport", doc, selection, vr2, NoTransaction, FALSE)

\* the state left by a dispatch that did not throw: m the callback up to
\* the dispatch, q the plugin fields after update(), r the outcome of
\* buildDecorations when update() called scheduleSync (trig)
DispatchCommit(m, tr, d2, sel2, vr2, trig, r, q) ==
  /\ trig => hist.triggers < MaxTriggers
  /\ doc' = d2
  /\ selection' = sel2
  /\ visibleRanges' = vr2
  /\ decorations' = FieldUpdate(decorations, tr)
  /\ SetPlugin(q)
  /\ hist' = LET h1 == [hist EXCEPT !.burst = 0,
                                    !.appliedBurst = hist.burst,
                                    !.applies = @ + 1,
                                    !.dispatched = m.dispatch.effects[1],
                                    !.tr = tr,
                                    !.event = IF q.hung THEN "hung" ELSE "apply"]
             IN  IF trig
                 THEN [HistSync(h1, m.plugin, q, r) EXCEPT !.triggers = @ + 1]
                 ELSE h1

DispatchPlugin(m, tr, d2, sel2, vr2, u, r) ==
  DispatchCommit(m, tr, d2, sel2, vr2,
                 u.docChanged \/ u.viewportChanged \/ u.selectionSet, r,
                 PluginUpdate(m.plugin, u, r))

\* view.dispatch(spec) that does not throw: the transaction is applied to
\* the state, the field and the plugin are updated
Dispatch(m, vr2) ==
  LET spec == m.dispatch
      tr == [docChanged |-> spec.changes # Null,
             selectionSet |-> spec.selection # Null,
             effects |-> spec.effects]
      d2 == IF spec.changes = Null THEN doc ELSE spec.changes.text
      sel2 == IF spec.selection = Null THEN selection
              ELSE <<Cursor(spec.selection.anchor)>>
      u == [docChanged |-> tr.docChanged, selectionSet |-> tr.selectionSet,
            viewportChanged |-> vr2 # visibleRanges]
  IN  DispatchPlugin(m, tr, d2, sel2, vr2, u,
                     buildDecorations(d2, sel2, vr2, isLive, filePath))

\* the callback returned without a dispatch, or dispatch threw and the
\* exception was caught
NoDispatch(m) ==
  /\ SetPlugin(m.plugin)
  /\ hist' = IF m.dispatch = Null
             THEN [hist EXCEPT !.burst = 0, !.event = "noDispatch"]
             ELSE [hist EXCEPT !.burst = 0,
                               !.appliedBurst = hist.burst,
                               !.applies = @ + 1,
                               !.dispatched = m.dispatch.effects[1],
                               !.event = "applyFailed"]
  /\ UNCHANGED <<doc, selection, visibleRanges, decorations>>

RunCallback(m, ok, vr2) ==
  IF m.dispatch = Null \/ ~ok
  THEN /\ vr2 = visibleRanges
       /\ m.dispatch = Null => ok
       /\ NoDispatch(m)
  ELSE Dispatch(m, vr2)

\* the queued callback runs.  ok: view.dispatch does not throw.  vr2: the
\* visible ranges the host computes for the dispatched transaction
RunMicrotask ==
  /\ microtasks > 0
  /\ ~hung
  /\ \E ok \in BOOLEAN, vr2 \in VisibleChoices(doc) :
       RunCallback(MicrotaskCallback(Plugin), ok, vr2)
  /\ UNCHANGED <<isLive, filePath, scan>>

Next == DocChange \/ SelectionChange \/ ViewportChange \/ RunMicrotask

Spec == Init /\ [][Next]_vars

\* a queued microtask runs as soon as the running handler has returned
FairSpec == Spec /\ WF_vars(RunMicrotask)

\* a trigger during which a host call of buildDecorations throws
ThrowingTrigger ==
  \E sel2 \in Selections(doc) \ {selection} :
    HostUpdate("selection", doc, sel2, visibleRanges,
               [docChanged |-> FALSE, selectionSet |-> TRUE, effects |-> <<>>],
               TRUE)

ThrowNext == Next \/ ThrowingTrigger

ThrowSpec == Init /\ [][ThrowNext]_vars

(***************************************************************************)
(* One call of buildDecorations, the scan loop taken step by step          *)
(***************************************************************************)
ScanLines == {HeaderLine, IndentedLine, BlankLine, PlainLine}

RECURSIVE DocsOfLength(_)
DocsOfLength(n) ==
  IF n = 0 THEN {<<>>}
  ELSE {Append(d, l) : d \in DocsOfLength(n - 1), l \in ScanLines}

ScanDocs == UNION {DocsOfLength(n) : n \in 1..MaxScanLines}

\* ranges from the start of a line to the end of the same or a later line
LineRanges(d) ==
  {Range(LineFrom(d, i), LineTo(d, j)) :
     <<i, j>> \in {ij \in (1..Len(d)) \X (1..Len(d)) : ij[1] <= ij[2]}}

\* one or two visible ranges, in any order, overlapping or not
ScanRangeLists(d) ==
  {<<r>> : r \in LineRanges(d)} \cup (LineRanges(d) \X LineRanges(d))

\* lines taken as scan position so far, counted up to MaxVisits + 1
CountVisit(visits, n) ==
  [visits EXCEPT ![n] = IF @ > MaxVisits THEN @ ELSE @ + 1]

ScanInit ==
  /\ doc \in ScanDocs
  /\ visibleRanges \in ScanRangeLists(doc)
  /\ selection \in Selections(doc)
  /\ isLive = TRUE
  /\ filePath = DailyFile
  /\ decorations = DecorationNone
  /\ scheduled = FALSE
  /\ nextDecorations = Null
  /\ microtasks = 0
  /\ hung = FALSE
  /\ hist = HistStart
  /\ scan = [phase |-> "called",
             s |-> ScanStart(visibleRanges),
             visits |-> [n \in 1..Len(doc) |-> 0],
             result |-> Null]

\* the early returns of buildDecorations
ScanEnter ==
  /\ scan.phase = "called"
  /\ scan' = IF Inert(isLive, filePath)
             THEN [scan EXCEPT !.phase = "returned", !.result = DecorationNone]
             ELSE [scan EXCEPT !.phase = "scanning"]
  /\ UNCHANGED <<doc, selection, visibleRanges, isLive, filePath, decorations,
                 scheduled, nextDecorations, microtasks, hung, hist>>

\* one iteration of the loops of buildEntries
ScanIterate ==
  /\ scan.phase = "scanning"
  /\ ~ScanEnded(visibleRanges, scan.s)
  /\ scan' = [scan EXCEPT
                !.s = ScanStep(doc, visibleRanges, scan.s),
                !.visits = IF TakesLine(visibleRanges, scan.s)
                           THEN CountVisit(@, LineNumberAt(doc, scan.s.pos))
                           ELSE @]
  /\ UNCHANGED <<doc, selection, visibleRanges, isLive, filePath, decorations,
                 scheduled, nextDecorations, microtasks, hung, hist>>

ScanResult(r) ==
  scan' = [scan EXCEPT !.phase = IF r.kind = "ok" THEN "returned" ELSE "threw",
                       !.result = r.value]

\* buildEntries has returned: the rest of buildDecorations
ScanReturn ==
  /\ scan.phase = "scanning"
  /\ ScanEnded(visibleRanges, scan.s)
  /\ ScanResult(DecorateEntries(doc, selection, scan.s.entries))
  /\ UNCHANGED <<doc, selection, visibleRanges, isLive, filePath, decorations,
                 scheduled, nextDecorations, microtasks, hung, hist>>

ScanNextStep == ScanEnter \/ ScanIterate \/ ScanReturn

ScanSpec == ScanInit /\ [][ScanNextStep]_vars

(***************************************************************************)
(* One line parsed: header grammar, head text, round trip                  *)
(***************************************************************************)
LinkA == <<"[", "[", "A", "]", "]">>
LinkPipe == <<"[", "[", "p", "/", "B", "|", "C", "]", "]">>
SuffixToken == <<" ", "~", "t", "1">>
CommaToken == <<",", " ">>
WithUpper == <<" ", "W", "i", "t", "h", " ">>

HeadTokens ==
  {LinkA, LinkPipe, WithDelimiter, <<"x">>, SuffixToken, CommaToken, WithUpper}

RECURSIVE HeadsOfTokens(_)
HeadsOfTokens(n) ==
  IF n = 0 THEN {<<>>}
  ELSE {h \o t : h \in HeadsOfTokens(n - 1), t \in HeadTokens}

StandupHead ==
  <<"[", "[", "S", "t", "a", "n", "d", "u", "p", "]", "]", " ", "w", "i", "t", "h", " ", "[", "[", "A", "n", "n", "a", "]", "]", ",", " ", "[", "[", "T", "o", "m", "]", "]">>

NickHead ==
  <<"[", "[", "N", "i", "c", "k", " ", "1", ":", "1", " ", "~", "a", "b", "c", "1", "2", "3", "]", "]", " ", "w", "i", "t", "h", " ", "[", "[", "N", "i", "c", "k", " ", "S", "t", "o", "c", "k", "s", "]", "]">>

RepeatHead ==
  <<"x", " ", "w", "i", "t", "h", " ", "[", "[", "A", "]", "]", ",", " ", "[", "[", "p", "/", "B", "|", "C", "]", "]", ",", " ", "[", "[", "A", "]", "]">>

Heads ==
  UNION {HeadsOfTokens(n) : n \in 0..MaxHeadTokens}
    \cup {StandupHead, NickHead, RepeatHead}

TimeLabel == <<"0", "9", ":", "0", "0">>

Prefixes == {<<>>, <<" ">>, <<"-", " ">>, <<"-">>, <<"*", "\t">>,
             <<" ", "+", " ", " ">>, <<"x", " ">>}

TimeLabels == {TimeLabel, <<"9", "9", ":", "9", "9">>, <<"A", "B", ":", "C", "D">>, <<"9", ":", "0", "0">>, <<"0", "0", "9", ":", "0", "0">>, <<"0", "9", ":", "0", "0", "0">>, <<"0", "9", ":", "0">>}

Rests == {<<>>, <<" ">>, <<" ", "x">>, <<"x">>, <<"\t", " ", "x", " ">>,
          <<" ", "h", "e", "l", "l", "o">>}

\* a line in three parts: what stands before the time label, the label, and
\* what follows it
LineParts ==
  [prefix : Prefixes, time : TimeLabels, rest : Rests] \cup
  {[prefix |-> p, time |-> TimeLabel, rest |-> <<" ">> \o h] :
     p \in {<<>>, <<"-", " ">>}, h \in Heads}

LineOfParts(parts) == parts.prefix \o parts.time \o parts.rest

\* what buildEntries derives from the head text
Describe(head) ==
  [primary      |-> extractPrimaryLink(head),
   title        |-> EntryTitle(head),
   locationText |-> EntryLocationText(head),
   participants |-> extractParticipants(head)]

ParseInit ==
  /\ \E parts \in LineParts :
       /\ doc = <<LineOfParts(parts)>>
       /\ scan = [phase |-> "line", parts |-> parts, parsed |-> Null,
                  described |-> Null, again |-> Null]
  /\ visibleRanges = FullViewport(doc)
  /\ selection = <<Cursor(0)>>
  /\ isLive = TRUE
  /\ filePath = DailyFile
  /\ decorations = DecorationNone
  /\ scheduled = FALSE
  /\ nextDecorations = Null
  /\ microtasks = 0
  /\ hung = FALSE
  /\ hist = HistStart

\* the line is matched against the header grammar
ParseHeader ==
  /\ scan.phase = "line"
  /\ scan' = [scan EXCEPT !.phase = "parsed", !.parsed = TimeAndHead(doc[1])]
  /\ UNCHANGED <<doc, selection, visibleRanges, isLive, filePath, decorations,
                 scheduled, nextDecorations, microtasks, hung, hist>>

\* title, location text and participants are taken from the head
DescribeHead ==
  /\ scan.phase = "parsed"
  /\ scan.parsed # Null
  /\ scan' = [scan EXCEPT !.phase = "described",
                          !.described = Describe(scan.parsed.head)]
  /\ UNCHANGED <<doc, selection, visibleRanges, isLive, filePath, decorations,
                 scheduled, nextDecorations, microtasks, hung, hist>>

\* the parsed pair is written out as a line and parsed again
Reparse ==
  /\ scan.phase = "described"
  /\ scan' = [scan EXCEPT !.phase = "reparsed",
                          !.again = TimeAndHead(Serialize(scan.parsed))]
  /\ UNCHANGED <<doc, selection, visibleRanges, isLive, filePath, decorations,
                 scheduled, nextDecorations, microtasks, hung, hist>>

ParseNext == ParseHeader \/ DescribeHead \/ Reparse

ParseSpec == ParseInit /\ [][ParseNext]_vars

(***************************************************************************)
(* Entry blocks: reverse lookup, block extent, body lines, placeholder     *)
(***************************************************************************)
IndentedHeaderLine == <<" ">> \o HeaderLine
DeepLine == <<" ", " ", "c">>
SpaceLine == <<" ">>
HeadingLine == <<"#", "#">>

BlockLines ==
  {HeaderLine, IndentedHeaderLine, IndentedLine, DeepLine, BlankLine,
   SpaceLine, PlainLine, HeadingLine}

RECURSIVE BlockDocsOfLength(_)
BlockDocsOfLength(n) ==
  IF n = 0 THEN {<<>>}
  ELSE {Append(d, l) : d \in BlockDocsOfLength(n - 1), l \in BlockLines}

\* a first line followed by k equal body lines
LongDoc(top, filler, k) == <<top>> \o [i \in 1..k |-> filler]

LongDocs ==
  {LongDoc(top, filler, k) :
     top \in {HeaderLine, PlainLine},
     filler \in {IndentedLine, BlankLine},
     k \in (MAX_LOOKBACK_LINES - LongSlack)..(MAX_LOOKBACK_LINES + LongSlack)}

BlockDocs ==
  UNION {BlockDocsOfLength(n) : n \in 1..MaxBlockLines} \cup LongDocs

\* the visible range that holds line n and nothing else
LineRange(d, n) == Range(LineFrom(d, n), LineTo(d, n))

BlockInit ==
  /\ doc \in BlockDocs
  /\ visibleRanges = FullViewport(doc)
  /\ selection \in {<<Cursor(0)>>, <<Cursor(DocLength(doc))>>}
  /\ isLive = TRUE
  /\ filePath = DailyFile
  /\ decorations = DecorationNone
  /\ scheduled = FALSE
  /\ nextDecorations = Null
  /\ microtasks = 0
  /\ hung = FALSE
  /\ hist = HistStart
  /\ scan = [phase |-> "doc", line |-> 0, owner |-> 0, scanned |-> Null,
             result |-> Null]

BlockScanned(phase, n, owner, r) ==
  /\ scan' = [phase |-> phase, line |-> n, owner |-> owner, scanned |-> r,
              result |-> Null]
  /\ UNCHANGED <<doc, selection, isLive, filePath, decorations, scheduled,
                 nextDecorations, microtasks, hung, hist>>

\* a scan of the one visible line n, which is no header: the reverse lookup
\* and the entries of the scan
LookupAt ==
  \E n \in 1..Len(doc) :
    /\ scan.phase = "doc"
    /\ ~isTimelineLine(doc[n])
    /\ visibleRanges' = <<LineRange(doc, n)>>
    /\ BlockScanned("lookedUp", n, findNearestTimeLineAbove(doc, n),
                    buildEntries(doc, <<LineRange(doc, n)>>))

\* a scan of the one visible line n, which is a header
ExtendAt ==
  \E n \in 1..Len(doc) :
    /\ scan.phase = "doc"
    /\ isTimelineLine(doc[n])
    /\ visibleRanges' = <<LineRange(doc, n)>>
    /\ BlockScanned("extended", n, n, buildEntries(doc, <<LineRange(doc, n)>>))

Decorated(r, result) ==
  /\ scan' = [phase |-> "decorated", line |-> 0, owner |-> 0, scanned |-> r,
              result |-> result]
  /\ UNCHANGED <<doc, selection, visibleRanges, isLive, filePath, decorations,
                 scheduled, nextDecorations, microtasks, hung, hist>>

\* buildDecorations of the whole document
DecorateDoc ==
  /\ scan.phase = "doc"
  /\ Decorated(buildEntries(doc, visibleRanges),
               buildDecorations(doc, selection, visibleRanges, isLive, filePath))

BlockNext == LookupAt \/ ExtendAt \/ DecorateDoc

BlockSpec == BlockInit /\ [][BlockNext]_vars

(***************************************************************************)
(* buildDecorations in any mode and on any file                            *)
(***************************************************************************)
\* the identities the host can report: a daily note, another file, none
FilePaths == {DailyFile, OtherFile, Null}

InertInit ==
  /\ doc \in SchedulerDocs
  /\ selection \in Selections(doc)
  /\ visibleRanges \in VisibleChoices(doc)
  /\ isLive \in BOOLEAN
  /\ filePath \in FilePaths
  /\ decorations = DecorationNone
  /\ scheduled = FALSE
  /\ nextDecorations = Null
  /\ microtasks = 0
  /\ hung = FALSE
  /\ hist = HistStart
  /\ scan = [phase |-> "view", result |-> Null]

\* one call of buildDecorations on the view
DecorateView ==
  /\ scan.phase = "view"
  /\ scan' = [phase |-> "decorated",
              result |-> buildDecorations(doc, selection, visibleRanges,
                                          isLive, filePath)]
  /\ UNCHANGED <<doc, selection, visibleRanges, isLive, filePath, decorations,
                 scheduled, nextDecorations, microtasks, hung, hist>>

InertNext == DecorateView

InertSpec == InertInit /\ [][InertNext]_vars

(***************************************************************************)
(* Cards on screen: edits above an entry, applies, clicks and keys         *)
(***************************************************************************)
ParticipantHeader ==
  <<"0", "9", ":", "0", "0", " ", "a">> \o WithDelimiter \o LinkA

\* k lines of text, a header, and a body line or none
CardDoc(k, header, body) == [i \in 1..k |-> PlainLine] \o <<header>> \o body

CardDocs ==
  {CardDoc(k, header, body) :
     k \in 0..MaxAbove,
     header \in {HeaderLine, ParticipantHeader},
     body \in {<<>>, <<IndentedLine>>}}

\* no click or key yet, or none since the last edit
NoAction == [kind |-> "none", raw |-> <<>>, anchor |-> 0, thrown |-> FALSE]

\* the view is created with the cursor at the start of the document; the
\* field is empty, no card is drawn, the plugin constructor has queued the
\* first apply
CardInit ==
  /\ doc \in CardDocs
  /\ selection = <<Cursor(0)>>
  /\ visibleRanges = FullViewport(doc)
  /\ isLive = TRUE
  /\ filePath = DailyFile
  /\ decorations = DecorationNone
  /\ \E q \in {scheduleSync(NewPlugin,
                            buildDecorations(doc, selection, visibleRanges,
                                             isLive, filePath))} :
       /\ scheduled = q.scheduled
       /\ nextDecorations = q.next
       /\ microtasks = q.microtasks
       /\ hung = q.hung
  /\ hist = HistStart
  /\ scan = [dom |-> <<>>, last |-> NoAction, applied |-> FALSE]

\* EditorView.update for a transaction of the user: the field, then the
\* plugin; the widgets on screen stay as they are
CardTransaction(d2, sel2, tr, last) ==
  /\ doc' = d2
  /\ selection' = sel2
  /\ visibleRanges' = FullViewport(d2)
  /\ decorations' = FieldUpdate(decorations, tr)
  /\ SetPlugin(PluginUpdate(Plugin,
                            [docChanged |-> tr.docChanged,
                             selectionSet |-> tr.selectionSet,
                             viewportChanged |-> FALSE],
                            buildDecorations(d2, sel2, FullViewport(d2),
                                             isLive, filePath)))
  /\ scan' = [scan EXCEPT !.last = last, !.applied = FALSE]
  /\ UNCHANGED <<isLive, filePath, hist>>

\* the user types or deletes: lines appear or vanish above the entry, the
\* header or the body changes
CardEdit ==
  \E d2 \in CardDocs \ {doc} :
    /\ microtasks = 0
    /\ CardTransaction(d2, ClampSelection(selection, d2),
                       [docChanged |-> TRUE, selectionSet |-> FALSE,
                        effects |-> <<>>],
                       NoAction)

\* the widgets on screen after the decorations changed to `ranges`: the
\* view keeps the DOM of a widget on screen for a new widget that eq()
\* calls equal (keep), so the listeners of the old widget stay in place
Redraw(dom, ranges, keep) ==
  [i \in 1..Len(ranges) |->
     IF keep /\ \E j \in 1..Len(dom) : dom[j].raw = ranges[i].entry.raw
     THEN dom[CHOOSE j \in 1..Len(dom) : dom[j].raw = ranges[i].entry.raw]
     ELSE ranges[i].entry]

\* the queued callback dispatches the pending set; the field takes it and
\* the view redraws.  keep: the view reuses the DOM of equal widgets
CardApplied(m, keep) ==
  /\ decorations' = FieldUpdate(decorations,
                                [docChanged |-> FALSE, selectionSet |-> FALSE,
                                 effects |-> m.dispatch.effects])
  /\ SetPlugin(m.plugin)
  /\ scan' = [scan EXCEPT !.dom = Redraw(scan.dom, decorations'.ranges, keep),
                          !.applied = TRUE]
  /\ UNCHANGED <<doc, selection, visibleRanges, isLive, filePath, hist>>

CardApply ==
  /\ microtasks > 0
  /\ \E keep \in BOOLEAN : CardApplied(MicrotaskCallback(Plugin), keep)

\* view.dispatch({ selection: { anchor } }) from a listener of the widget
\* w: a position outside the document makes dispatch throw
DispatchAnchor(kind, w, anchor) ==
  IF anchor > DocLength(doc)
  THEN /\ scan' = [scan EXCEPT !.last = [kind |-> kind, raw |-> w.raw,
                                         anchor |-> anchor, thrown |-> TRUE],
                               !.applied = FALSE]
       /\ UNCHANGED <<doc, selection, visibleRanges, isLive, filePath,
                      decorations, scheduled, nextDecorations, microtasks,
                      hung, hist>>
  ELSE CardTransaction(doc, <<Cursor(anchor)>>,
                       [docChanged |-> FALSE, selectionSet |-> TRUE,
                        effects |-> <<>>],
                       [kind |-> kind, raw |-> w.raw, anchor |-> anchor,
                        thrown |-> FALSE])

\* enterEdit: the edit button, a double click, Enter or "e" on a card
EnterEdit ==
  \E i \in 1..Len(scan.dom) :
    /\ microtasks = 0
    /\ DispatchAnchor("edit", scan.dom[i], scan.dom[i].editPos)

\* a click on a participant of a card
ParticipantClick ==
  \E i \in 1..Len(scan.dom) :
    /\ microtasks = 0
    /\ extractParticipants(ParsedHead(scan.dom[i].raw[1])) # <<>>
    /\ DispatchAnchor("participant", scan.dom[i], scan.dom[i].lineFrom)

\* a click on the card itself: card.focus()
CardClick ==
  \E i \in 1..Len(scan.dom) :
    /\ microtasks = 0
    /\ scan' = [scan EXCEPT !.last = [kind |-> "click", raw |-> scan.dom[i].raw,
                                      anchor |-> 0, thrown |-> FALSE],
                            !.applied = FALSE]
    /\ UNCHANGED <<doc, selection, visibleRanges, isLive, filePath,
                   decorations, scheduled, nextDecorations, microtasks, hung,
                   hist>>

CardNext == CardEdit \/ CardApply \/ EnterEdit \/ ParticipantClick \/ CardClick

CardSpec == CardInit /\ [][CardNext]_vars

(***************************************************************************)
(* withFileLock: the lock table and the calls in flight                    *)
(***************************************************************************)
LockPaths == {"a.md", "b.md"}

\* the promises of call k: the one its finally block resolves, and the one
\* put into the table, existing.then(() => lock)
LockPromise(k) == [kind |-> "lock", call |-> k]
ChainPromise(k) == [kind |-> "chain", call |-> k]

\* Promise.resolve()
ResolvedPromise == [kind |-> "resolved", call |-> 0]

\* a lock that a throwing callback leaves unreleased
ReleasedUnlessThrown(c) == c.pc = "returned"

\* release() has been called: the call has left its finally block
Released(c) == c.pc \in {"returned", "threw"}

\* whether promise q is resolved: the chain of call k once the promise the
\* call waited for is resolved and its own lock is released
RECURSIVE IsResolved(_, _)
IsResolved(calls, q) ==
  IF q.kind = "resolved" THEN TRUE
  ELSE IF q.kind = "lock" THEN Released(calls[q.call])
  ELSE /\ IsResolved(calls, calls[q.call].existing)
       /\ Released(calls[q.call])

\* FILE_LOCKS.get(path) ?? Promise.resolve()
ExistingLock(locks, path) ==
  IF locks[path] = Null THEN ResolvedPromise ELSE locks[path]

\* if (FILE_LOCKS.get(path) === lock) FILE_LOCKS.delete(path)
DeleteIfOwn(locks, path, k) ==
  IF locks[path] = LockPromise(k) THEN [locks EXCEPT ![path] = Null]
  ELSE locks

LockInit ==
  /\ doc = <<BlankLine>>
  /\ selection = <<Cursor(0)>>
  /\ visibleRanges = FullViewport(doc)
  /\ isLive = TRUE
  /\ filePath = DailyFile
  /\ decorations = DecorationNone
  /\ scheduled = FALSE
  /\ nextDecorations = Null
  /\ microtasks = 0
  /\ hung = FALSE
  /\ hist = HistStart
  /\ scan = [locks |-> [f \in LockPaths |-> Null], calls |-> <<>>]

LockStep(locks, calls) ==
  /\ scan' = [locks |-> locks, calls |-> calls]
  /\ UNCHANGED <<doc, selection, visibleRanges, isLive, filePath, decorations,
                 scheduled, nextDecorations, microtasks, hung, hist>>

\* withFileLock(path, fn) up to its first await: the table is read and
\* written
LockCall ==
  \E path \in LockPaths :
    /\ Len(scan.calls) < MaxCalls
    /\ LockStep([scan.locks EXCEPT ![path] = ChainPromise(Len(scan.calls) + 1)],
                Append(scan.calls,
                       [path |-> path,
                        existing |-> ExistingLock(scan.locks, path),
                        pc |-> "waiting"]))

\* await existing is over: fn is called
LockEnter ==
  \E k \in 1..Len(scan.calls) :
    /\ scan.calls[k].pc = "waiting"
    /\ IsResolved(scan.calls, scan.calls[k].existing)
    /\ LockStep(scan.locks, [scan.calls EXCEPT ![k].pc = "running"])

\* fn returns or throws: the finally block
LockLeave ==
  \E k \in 1..Len(scan.calls), end \in {"returned", "threw"} :
    /\ scan.calls[k].pc = "running"
    /\ LockStep(DeleteIfOwn(scan.locks, scan.calls[k].path, k),
                [scan.calls EXCEPT ![k].pc = end])

LockNext == LockCall \/ LockEnter \/ LockLeave

LockSpec == LockInit /\ [][LockNext]_vars

(***************************************************************************)
(* The Enter key of the auto-timestamp keymap                              *)
(***************************************************************************)
\* settings.dailyNotesFolder as text
DailyFolderText == <<"D", "a", "i", "l", "y">>

\* file paths as text: in the folder, in a folder whose name begins alike,
\* elsewhere
PathInDaily == DailyFolderText \o <<"/", "n">>
PathInSibling == DailyFolderText \o <<"2", "/", "n">>
PathElsewhere == <<"N", "/", "n">>

\* no file in the view: file?.path is undefined
NoPath == <<>>

EnterPaths == {PathInDaily, PathInSibling, PathElsewhere, NoPath}

\* formatTime(new Date())
ClockTime == <<"1", "0", ":", "3", "0">>

\* \w of a regular expression
IsWordChar(c) == IsAlnum(c) \/ c = "_"

\* line.text.match(/^(\d{2}):(\d{2})\b/)
TimeAtLineStart(text) ==
  /\ Len(text) >= 5
  /\ IsDigit(text[1]) /\ IsDigit(text[2]) /\ text[3] = ":"
  /\ IsDigit(text[4]) /\ IsDigit(text[5])
  /\ Len(text) = 5 \/ ~IsWordChar(text[6])

\* !file?.path || !file.path.startsWith(settings.dailyNotesFolder)
OutsideDailyFolder(path) ==
  path = NoPath \/ ~StartsAt(path, DailyFolderText, 1)

\* the document after `\n\n${time} ` was inserted at the end of line n
InsertTimestamp(d, n, time) ==
  SubSeq(d, 1, n) \o <<<<>>, time \o <<" ">>>> \o SubSeq(d, n + 1, Len(d))

\* the run function on a view with one cursor: whether the key was handled,
\* and the document and cursor it leaves
EnterAt(d, cursor, line, time) ==
  IF cursor # line.to \/ ~TimeAtLineStart(line.text)
  THEN [handled |-> FALSE, doc |-> d, selection |-> <<Cursor(cursor)>>]
  ELSE [handled |-> TRUE,
        doc |-> InsertTimestamp(d, line.number, time),
        selection |-> <<Cursor(line.to + 2 + Len(time) + 1)>>]

EnterRun(path, d, cursor, time) ==
  IF OutsideDailyFolder(path)
  THEN [handled |-> FALSE, doc |-> d, selection |-> <<Cursor(cursor)>>]
  ELSE EnterAt(d, cursor, LineAt(d, cursor), time)

EnterLines ==
  {<<"0", "9", ":", "0", "0">>, HeaderLine, IndentedHeaderLine,
   <<"0", "9", ":", "0", "0", "a">>, <<"9", ":", "0", "0", " ", "a">>,
   PlainLine, BlankLine}

RECURSIVE EnterDocsOfLength(_)
EnterDocsOfLength(n) ==
  IF n = 0 THEN {<<>>}
  ELSE {Append(d, l) : d \in EnterDocsOfLength(n - 1), l \in EnterLines}

EnterDocs == UNION {EnterDocsOfLength(n) : n \in 1..MaxEnterLines}

EnterInit ==
  /\ doc \in EnterDocs
  /\ \E p \in 0..DocLength(doc) : selection = <<Cursor(p)>>
  /\ visibleRanges = FullViewport(doc)
  /\ isLive = TRUE
  /\ filePath \in EnterPaths
  /\ decorations = DecorationNone
  /\ scheduled = FALSE
  /\ nextDecorations = Null
  /\ microtasks = 0
  /\ hung = FALSE
  /\ hist = HistStart
  /\ scan = [phase |-> "typing", handled |-> FALSE, doc |-> doc,
             selection |-> selection]

\* the user presses Enter: the document and selection before the key are
\* kept for comparison
EnterPressed(r) ==
  /\ doc' = r.doc
  /\ selection' = r.selection
  /\ visibleRanges' = FullViewport(r.doc)
  /\ scan' = [phase |-> "pressed", handled |-> r.handled, doc |-> doc,
              selection |-> selection]
  /\ UNCHANGED <<isLive, filePath, decorations, scheduled, nextDecorations,
                 microtasks, hung, hist>>

EnterKey ==
  /\ scan.phase = "typing"
  /\ EnterPressed(EnterRun(filePath, doc, selection[1].to, ClockTime))

EnterNext == EnterKey

EnterSpec == EnterInit /\ [][EnterNext]_vars

(***************************************************************************)
(* Properties of the scheduler                                             *)
(***************************************************************************)
\* the step ran the queued callback up to a dispatch
Dispatched == hist'.applies = hist.applies + 1

\* C1: the triggers between two runs of the deferred callback share one
\* queued callback and one dispatch: a callback is queued exactly while a
\* burst of at least one trigger is waiting, never more than one is queued,
\* and every burst begun has been dispatched once or is still queued
C1_OneApplyPerBurst ==
  /\ microtasks <= 1
  /\ scheduled = (microtasks = 1)
  /\ (microtasks = 1) = (hist.burst >= 1)
  /\ hist.windows = hist.applies + microtasks

C1_Witness ==
  /\ hist.event = "apply"
  /\ hist.appliedBurst >= 2
  /\ hist.applies = hist.windows

\* C2: the set a dispatch carries is the candidate of the most recent
\* trigger before the callback ran
C2_DispatchesLatestCandidate ==
  [][Dispatched => hist'.dispatched = hist.lastCand]_vars

C2_Witness ==
  /\ hist.event = "apply"
  /\ microtasks = 0
  /\ hist.appliedBurst >= 2
  /\ hist.dispatched # hist.queuedCand
  /\ decorations = hist.dispatched

\* C3: after finitely many triggers the scheduler is eventually idle for
\* good, with the committed set that of the last trigger when the last
\* dispatch went through
C3_EventuallyIdle ==
  <>[](/\ ~scheduled
       /\ nextDecorations = Null
       /\ microtasks = 0
       /\ hist.event = "apply" => decorations = hist.lastCand)

\* C6: the committed set changes only in the transaction of a dispatch, to
\* the value of its setTimelineDecorations effect
C6_OnlyApplyWrites ==
  [][decorations' # decorations =>
       /\ Dispatched
       /\ hist'.tr.effects # <<>>
       /\ decorations' = hist'.tr.effects[1]]_vars

C6_Witness ==
  /\ hist.event = "doc"
  /\ hist.tr.docChanged
  /\ decorations # DecorationNone
  /\ decorations # hist.lastCand

\* C7: a run of the deferred callback, dispatching or failing to, leaves
\* document and selection as they were
C7_ApplyKeepsTextAndCursor ==
  [][Dispatched => doc' = doc /\ selection' = selection]_vars

C7_Witness ==
  /\ hist.event = "apply"
  /\ selection # <<Cursor(0)>>
  /\ Len(decorations.ranges) >= 1
  /\ hist.applies >= 2

\* C8: after a trigger whose computation threw, the overlay that is shown,
\* or the one queued to be shown, is the empty set
C8_ThrowResetsToEmpty ==
  hist.event = "threw" =>
    IF scheduled THEN nextDecorations = DecorationNone
    ELSE decorations = DecorationNone

\* C9: a dispatch that throws leaves the committed set as it was and the
\* scheduler idle, and the next trigger queues a callback for its candidate
C9_FailedApplyReturnsToIdle ==
  [][/\ (Dispatched /\ hist'.event = "applyFailed") =>
          /\ decorations' = decorations
          /\ ~scheduled'
          /\ nextDecorations' = Null
          /\ microtasks' = 0
     /\ (hist.event = "applyFailed" /\ hist'.triggers # hist.triggers /\ ~hung') =>
          /\ scheduled'
          /\ microtasks' = 1
          /\ nextDecorations' = hist'.lastCand]_vars

C9_Witness ==
  /\ hist.event = "applyFailed"
  /\ hist.dispatched # decorations
  /\ hist.triggers < MaxTriggers

(***************************************************************************)
(* Properties of one buildDecorations call                                 *)
(***************************************************************************)
CardRanges == {<<c.from, c.to>> : c \in {scan.result.ranges[i] :
                 i \in {k \in 1..Len(scan.result.ranges) :
                          scan.result.ranges[k].widget = "card"}}}

ScannedEntries == {scan.s.entries[i] : i \in 1..Len(scan.s.entries)}

\* some offset of the entry lies in some selection range
Touched(e) ==
  \E i \in 1..Len(selection), p \in e.from..e.to :
    selection[i].from <= p /\ p <= selection[i].to

\* C4: the cards of a computed set are the scanned entries that no selection
\* range touches
C4_SelectedEntriesStayRaw ==
  scan.phase = "returned" =>
    CardRanges = {<<e.from, e.to>> : e \in {x \in ScannedEntries : ~Touched(x)}}

C4_Witness ==
  /\ scan.phase = "returned"
  /\ \E e \in ScannedEntries : Touched(e) /\ selection[1].from = e.to
  /\ \E e \in ScannedEntries : ~Touched(e)

\* C5: the scanned entries are pairwise disjoint, the builder never rejects
\* a range, and the ranges of a computed set are strictly ascending and
\* disjoint
C5_RangesAscendingDisjoint ==
  /\ scan.phase # "threw"
  /\ \A i, j \in 1..Len(scan.s.entries) :
       i # j => \/ scan.s.entries[i].to < scan.s.entries[j].from
                \/ scan.s.entries[j].to < scan.s.entries[i].from
  /\ scan.phase = "returned" =>
       \A i, j \in 1..Len(scan.result.ranges) :
         i < j => scan.result.ranges[i].to < scan.result.ranges[j].from

C5_Witness ==
  /\ scan.phase = "returned"
  /\ Len(scan.result.ranges) >= 2
  /\ Len(visibleRanges) = 2
  /\ visibleRanges[2].from < visibleRanges[1].from

\* visible ranges as the editor supplies them: ascending and disjoint
AscendingRanges ==
  \A i, j \in 1..Len(visibleRanges) :
    i < j => visibleRanges[i].to < visibleRanges[j].from

\* C10: in a scan over ascending disjoint visible ranges, a later one of
\* which may start inside an entry an earlier one produced, no line is
\* taken as scan position twice
C10_LineScannedOnce ==
  AscendingRanges => \A n \in DOMAIN scan.visits : scan.visits[n] <= 1

\* C24: between callbacks a pending candidate exists only while an apply is
\* queued: pending set implies scheduled, not scheduled implies no pending
C24_PendingOnlyWhileScheduled ==
  /\ nextDecorations # Null => scheduled
  /\ ~scheduled => nextDecorations = Null

\* a candidate is pending again after an apply, and its apply is queued
C24_Witness ==
  /\ hist.applies > 0
  /\ nextDecorations # Null
  /\ scheduled
  /\ microtasks = 1

\* C25: in every state, also between an edit and the apply that follows it,
\* each card range of the committed set lies inside the current document
\* and starts at the first offset of one of its header lines
C25_CommittedRangesFitDocument ==
  \A i \in 1..Len(decorations.ranges) :
    decorations.ranges[i].widget = "card" =>
      /\ decorations.ranges[i].to <= DocLength(doc)
      /\ \E n \in 1..Len(doc) :
           /\ isTimelineLine(doc[n])
           /\ decorations.ranges[i].from = LineFrom(doc, n)

\* C23: the scan ends for every document and every list of visible ranges:
\* each iteration of its loops moves on to a later range or, within the
\* range, to a later position
C23_ScanAdvances ==
  [][(scan.phase = "scanning" /\ scan'.phase = "scanning") =>
       \/ scan'.s.ri > scan.s.ri
       \/ scan'.s.ri = scan.s.ri /\ scan'.s.pos > scan.s.pos]_vars

(***************************************************************************)
(* Properties of the line parser                                           *)
(***************************************************************************)
IsTwoDigitTime(t) ==
  /\ Len(t) = 5
  /\ IsDigit(t[1]) /\ IsDigit(t[2]) /\ t[3] = ":"
  /\ IsDigit(t[4]) /\ IsDigit(t[5])

\* optional whitespace, then optionally a list marker and whitespace
IsHeaderPrefix(p) ==
  \E k \in 0..Len(p) :
    /\ \A i \in 1..k : IsSpace(p[i])
    /\ \/ k = Len(p)
       \/ /\ k + 2 <= Len(p)
          /\ IsListMarker(p[k + 1])
          /\ \A i \in (k + 2)..Len(p) : IsSpace(p[i])

\* the parts of the line follow the header grammar
FollowsGrammar(parts) ==
  /\ IsHeaderPrefix(parts.prefix)
  /\ IsTwoDigitTime(parts.time)
  /\ parts.rest # <<>>
  /\ IsSpace(parts.rest[1])

\* C13: a line is a header exactly when it is made of an optional indent,
\* an optional list marker with whitespace, two digits, a colon, two digits
\* and at least one whitespace character; its time is the label as written
\* and its head the trimmed rest
C13_HeaderGrammar ==
  scan.phase = "parsed" =>
    /\ isTimelineLine(doc[1]) = FollowsGrammar(scan.parts)
    /\ (scan.parsed # Null) = FollowsGrammar(scan.parts)
    /\ scan.parsed # Null =>
         /\ scan.parsed.time = scan.parts.time
         /\ scan.parsed.head = Trim(scan.parts.rest)

C13_Witness ==
  /\ scan.phase = "parsed"
  /\ scan.parsed # Null
  /\ scan.parts.prefix = <<" ", "+", " ", " ">>
  /\ scan.parts.time = <<"9", "9", ":", "9", "9">>
  /\ scan.parsed.head = <<>>

\* C14: the pair parsed from a header line, written as time, one space,
\* head, parses to the same pair
C14_RoundTrip ==
  scan.phase = "reparsed" => scan.again = scan.parsed

C14_Witness ==
  /\ scan.phase = "reparsed"
  /\ scan.parsed.head = <<>>
  /\ scan.parts.prefix = <<"-", " ">>
  /\ Serialize(scan.parsed) # doc[1]

Standup == <<"S", "t", "a", "n", "d", "u", "p">>
Anna == <<"A", "n", "n", "a">>
Tom == <<"T", "o", "m">>

\* C15: "09:00 [[Standup]] with [[Anna]], [[Tom]]" gives time 09:00, primary
\* link target Standup, participants Anna then Tom, and an empty location
\* text
C15_StandupExample ==
  (scan.phase = "described" /\ scan.parsed.head = StandupHead) =>
    /\ scan.parsed.time = TimeLabel
    /\ scan.described.primary # Null
    /\ scan.described.primary.target = Standup
    /\ scan.described.participants =
         <<[target |-> Anna, display |-> Anna], [target |-> Tom, display |-> Tom]>>
    /\ scan.described.locationText = <<>>

\* the text without the characters of the match m
WithoutMatch(text, m) ==
  IF m.from = 0 THEN text
  ELSE SubSeq(text, 1, m.from - 1) \o SubSeq(text, m.to + 1, Len(text))

\* the head without its first link and without what starts at the first
\* " with ", other links flattened, trimmed
LocationAsStated(head) ==
  Trim(stripWikilinks(BeforeWith(WithoutMatch(head, FirstLinkFrom(head, 1)))))

\* C16: the location text of a head that holds a link is the head with the
\* primary link removed, cut at the first " with ", links flattened, trimmed
C16_LocationText ==
  (scan.phase = "described" /\ scan.described.primary # Null) =>
    scan.described.locationText = LocationAsStated(scan.parsed.head)

\* the title as stated: the stripped display of the first link, else the
\* part of the head before the first " with "
TitleAsStated(head, primary) ==
  IF primary # Null THEN stripEventIdSuffix(primary.display)
  ELSE OrEmptyTitle(BeforeWith(head))

\* C17: the title is the display text of the first link without its ~token
\* suffix, and for a head without a link the part before the first " with ",
\* "(empty)" when that part is empty
C17_Title ==
  scan.phase = "described" =>
    scan.described.title = TitleAsStated(scan.parsed.head, scan.described.primary)

\* the links of the head that start at index i or later, in order
LinksAfterDelimiter(head, w) ==
  IF w = 0 THEN <<>> ELSE LinksFrom(head, w + Len(WithDelimiter))

\* number of links that lie wholly before index w
RECURSIVE CountLinksBefore(_, _, _)
CountLinksNext(head, w, m) ==
  IF m.from = 0 \/ m.to >= w THEN 0 ELSE 1 + CountLinksBefore(head, w, m.to + 1)

CountLinksBefore(head, w, i) == CountLinksNext(head, w, FirstLinkFrom(head, i))

\* C18: the participants are the links after the first " with ", in order
\* and with repetitions; none without the delimiter, and none of the links
\* before it
C18_Participants ==
  scan.phase = "described" =>
    /\ scan.described.participants =
         LinksAfterDelimiter(scan.parsed.head,
                             IndexOfFrom(scan.parsed.head, WithDelimiter, 1))
    /\ IndexOfFrom(scan.parsed.head, WithDelimiter, 1) = 0 =>
         scan.described.participants = <<>>
    /\ Len(scan.described.participants)
         + CountLinksBefore(scan.parsed.head,
                            IndexOfFrom(scan.parsed.head, WithDelimiter, 1), 1)
         = Len(LinksFrom(scan.parsed.head, 1))
       \/ IndexOfFrom(scan.parsed.head, WithDelimiter, 1) = 0

C18_Witness ==
  /\ scan.phase = "described"
  /\ scan.parsed.head = RepeatHead
  /\ Len(scan.described.participants) = 3
  /\ scan.described.participants[1] = scan.described.participants[3]
  /\ scan.described.primary = scan.described.participants[1]

(***************************************************************************)
(* Properties of entry blocks                                              *)
(***************************************************************************)
IsBodyLine(text) == (IsBlank(text) \/ IsIndented(text)) /\ ~isTimelineLine(text)

\* the header line that owns line n: at most MAX_LOOKBACK_LINES above it,
\* with body lines only from the line after it to line n; 0 when there is
\* none
Owner(d, n) ==
  LET owners == {h \in 1..n : /\ isTimelineLine(d[h])
                              /\ n - h <= MAX_LOOKBACK_LINES
                              /\ \A k \in (h + 1)..n : IsBodyLine(d[k])}
  IN IF owners = {} THEN 0 ELSE CHOOSE h \in owners : TRUE

\* C11: from a line that is no header the lookup returns the header at most
\* 50 lines above with only blank or indented lines down to the line, and
\* the scan gives the entry that starts at that header and holds the line;
\* without such a header the lookup returns nothing and the scan no entry
C11_ReverseLookup ==
  scan.phase = "lookedUp" =>
    /\ scan.owner = Owner(doc, scan.line)
    /\ ~scan.scanned.diverges
    /\ scan.owner = 0 => scan.scanned.entries = <<>>
    /\ scan.owner > 0 =>
         /\ Len(scan.scanned.entries) = 1
         /\ scan.scanned.entries[1].from = LineFrom(doc, scan.owner)
         /\ scan.scanned.entries[1].to >= LineTo(doc, scan.line)

C11_Witness ==
  /\ scan.phase = "lookedUp"
  /\ scan.owner = 1
  /\ scan.line = MAX_LOOKBACK_LINES + 1
  /\ scan.scanned.entries[1].from = 0

\* the last line of the block of header line n: the body lines after it up
\* to the first line that is none
LastOfBlock(d, n) ==
  CHOOSE m \in n..Len(d) :
    /\ \A k \in (n + 1)..m : IsBodyLine(d[k])
    /\ m = Len(d) \/ ~IsBodyLine(d[m + 1])

\* C12: the entry of a header runs through the blank and indented lines
\* after it and ends before the next header, "##" line or other unindented
\* text, or with the document; blank lines at its end belong to it, and the
\* visible range does not limit it
C12_BlockExtent ==
  scan.phase = "extended" =>
    /\ Len(scan.scanned.entries) = 1
    /\ scan.scanned.entries[1].from = LineFrom(doc, scan.line)
    /\ scan.scanned.entries[1].to = LineTo(doc, LastOfBlock(doc, scan.line))
    /\ scan.scanned.entries[1].raw =
         SubSeq(doc, scan.line, LastOfBlock(doc, scan.line))

C12_Witness ==
  /\ scan.phase = "extended"
  /\ scan.line = 1
  /\ doc = <<HeaderLine, BlankLine, HeadingLine>>
  /\ scan.scanned.entries[1].to > visibleRanges[1].to

\* number of whitespace characters a line starts with
Indent(text) == SkipSpace(text, 1) - 1

\* the smallest indent of the indented lines among lines a..b of d
LevelOf(d, a, b) ==
  LET ind == {Indent(d[k]) : k \in {j \in a..b : ~IsBlank(d[j])}}
  IN IF ind = {} THEN 0 ELSE CHOOSE x \in ind : \A y \in ind : x <= y

\* a body line with one level of indentation taken off
OneLevelOff(text, level) ==
  IF IsBlank(text) THEN <<>> ELSE SubSeq(text, level + 1, Len(text))

\* C19: bodyLines has one element for each continuation line, in order: the
\* empty string for a blank line, else the line without one level of
\* indentation, a deeper line keeping the rest of its indent
C19_BodyLines ==
  scan.phase = "extended" =>
    /\ Len(scan.scanned.entries) = 1
    /\ scan.scanned.entries[1].bodyLines =
         [k \in 1..(LastOfBlock(doc, scan.line) - scan.line) |->
            OneLevelOff(doc[scan.line + k],
                        LevelOf(doc, scan.line + 1,
                                LastOfBlock(doc, scan.line)))]

\* the document holds no character that is not whitespace
OnlyWhitespace(d) == \A n \in 1..Len(d) : \A i \in 1..Len(d[n]) : IsSpace(d[n][i])

Placeholders(ranges) == {i \in 1..Len(ranges) : ranges[i].widget = "empty-state"}

\* C20: without entries a document of whitespace only gets exactly the
\* placeholder and a document with other text gets nothing; a document with
\* an entry never gets the placeholder
C20_Placeholder ==
  scan.phase = "decorated" =>
    /\ scan.result.kind = "ok"
    /\ (scan.scanned.entries = <<>> /\ OnlyWhitespace(doc)) =>
         /\ Len(scan.result.value.ranges) = 1
         /\ Placeholders(scan.result.value.ranges) = {1}
    /\ (scan.scanned.entries = <<>> /\ ~OnlyWhitespace(doc)) =>
         scan.result.value.ranges = <<>>
    /\ scan.scanned.entries # <<>> =>
         Placeholders(scan.result.value.ranges) = {}

C20_Witness ==
  /\ scan.phase = "decorated"
  /\ doc = <<SpaceLine, BlankLine, SpaceLine>>
  /\ scan.result.value = EmptyDailyState

HeaderLineOf(d) == CHOOSE n \in 1..Len(d) : isTimelineLine(d[n])

\* offset of the first character after the time label "09:00" and the
\* whitespace that follows it
HeadTextStart(d) == LineFrom(d, HeaderLineOf(d)) + 6

\* C22: a click on the body of a card moves the cursor to the start of the
\* header text of the entry, and nowhere else
C22_CardClickMovesCursor ==
  scan.last.kind = "click" => selection = <<Cursor(HeadTextStart(doc))>>

\* C26: after any edits and applies, entering edit on a card on screen puts
\* the cursor at the start of the header text of its entry in the current
\* document, also for a card that was kept while lines were added or removed
\* above it
C26_EditAtCurrentHeadText ==
  scan.last.kind = "edit" =>
    /\ ~scan.last.thrown
    /\ selection = <<Cursor(HeadTextStart(doc))>>

\* C27: the offset a card moves the cursor to (edit position, or entry start
\* for a participant) lies in the range of its entry, and the overlay
\* applied next does not replace that entry
C27_CursorInsideOwnEntry ==
  scan.last.kind \in {"edit", "participant"} =>
    /\ ~scan.last.thrown
    /\ scan.last.anchor >= LineFrom(doc, HeaderLineOf(doc))
    /\ scan.last.anchor <=
         LineTo(doc, LastOfBlock(doc, HeaderLineOf(doc)))
    /\ scan.applied =>
         \A i \in 1..Len(decorations.ranges) :
           decorations.ranges[i].entry.raw # scan.last.raw

(***************************************************************************)
(* Properties of withFileLock                                              *)
(***************************************************************************)
CallsOn(path) == {k \in 1..Len(scan.calls) : scan.calls[k].path = path}

Finished(k) == scan.calls[k].pc \in {"returned", "threw"}

\* C28: on one path at most one callback runs at a time, the callbacks run
\* in the order of the calls, a callback that throws lets the next one run,
\* and no call waits for a call on another path
C28_MutualExclusionPerPath ==
  \A path \in LockPaths :
    /\ \A i, j \in CallsOn(path) :
         (scan.calls[i].pc = "running" /\ scan.calls[j].pc = "running")
           => i = j
    /\ \A i, j \in CallsOn(path) :
         (i < j /\ scan.calls[j].pc # "waiting") => Finished(i)
    /\ \A j \in CallsOn(path) :
         (scan.calls[j].pc = "waiting"
          /\ \A i \in CallsOn(path) : i < j => Finished(i))
           => IsResolved(scan.calls, scan.calls[j].existing)

\* the second call on a path runs after the first threw, while one call on
\* the other path runs and a third call on the path waits
C28_Witness ==
  /\ Len(scan.calls) = 4
  /\ scan.calls[1].path = scan.calls[2].path
  /\ scan.calls[1].pc = "threw"
  /\ scan.calls[2].pc = "running"
  /\ scan.calls[3].path # scan.calls[1].path
  /\ scan.calls[3].pc = "running"
  /\ scan.calls[4].path = scan.calls[1].path
  /\ scan.calls[4].pc = "waiting"

\* C29: when every call on a path has completed and none waits, the lock
\* table holds no entry for the path
C29_TableEmptiedByLastCall ==
  \A path \in LockPaths :
    (\A k \in CallsOn(path) : Finished(k)) => scan.locks[path] = Null

(***************************************************************************)
(* Properties of the Enter key                                             *)
(***************************************************************************)
\* the text of a document: its lines joined by line breaks
RECURSIVE TextOf(_)
TextOf(d) ==
  IF Len(d) = 1 THEN d[1]
  ELSE TextOf(SubSeq(d, 1, Len(d) - 1)) \o <<"\n">> \o d[Len(d)]

\* the file lies under the daily-notes folder
UnderDailyFolder(path) ==
  StartsAt(path, DailyFolderText \o <<"/">>, 1)

\* offset p is the end of a line that begins with a time of day
AtEndOfTimedLine(d, p) ==
  \E n \in 1..Len(d) :
    /\ p = LineTo(d, n)
    /\ Len(d[n]) >= 5
    /\ \A i \in {1, 2, 4, 5} : IsDigit(d[n][i])
    /\ d[n][3] = ":"
    /\ Len(d[n]) > 5 => d[n][6] \in {" ", "-", ".", ","}

\* the text with a blank line and the clock time put in at offset p
WithTimestampAt(text, p) ==
  SubSeq(text, 1, p) \o <<"\n", "\n">> \o ClockTime \o <<" ">>
    \o SubSeq(text, p + 1, Len(text))

====
